---- MODULE Spec2Model ----
(***************************************************************************)
(* Model of e2e-tests/utility/generate-expected-outputs.py: the script     *)
(* resets the directory `temp`, then for every entry of `arglist` runs     *)
(* `score-compose <entry>`, drains the merged stdout/stderr pipe line by   *)
(* line, drops the last character of what it read and appends the rest to  *)
(* temp/<entry>-output.txt.                                                *)
(*                                                                         *)
(* Text is a sequence of one-character strings, pipe data a sequence of    *)
(* byte values.  A Python value that may be None is a sequence of length   *)
(* zero (None) or one (the value).                                         *)
(***************************************************************************)
EXTENDS Naturals, Sequences, FiniteSets, TLC

\* ------------------------------------------------------------- bounds
\* Number of leading entries of arglist the modelled loop iterates over.
NumArgs == 3
\* Longest output, in bytes, the external tool emits for one invocation.
MaxOut == 3
\* Number of times the loop body is executed over the list (script runs and
\* repetitions of the loop) in the repeated-run specification.
MaxRuns == 2

\* ------------------------------------------------- program constants
sc_exec == <<"s", "c", "o", "r", "e", "-", "c", "o", "m", "p", "o", "s", "e">>

arglist == <<
    <<"-", "-", "h", "e", "l", "p">>,
    <<"c", "o", "m", "p", "l", "e", "t", "i", "o", "n">>,
    <<"c", "o", "m", "p", "l", "e", "t", "i", "o", "n", " ", "b", "a", "s", "h">>,
    <<"c", "o", "m", "p", "l", "e", "t", "i", "o", "n", " ", "b", "a", "s", "h", " ", "-", "-", "h", "e", "l", "p">>,
    <<"c", "o", "m", "p", "l", "e", "t", "i", "o", "n", " ", "f", "i", "s", "h">>,
    <<"c", "o", "m", "p", "l", "e", "t", "i", "o", "n", " ", "f", "i", "s", "h", " ", "-", "-", "h", "e", "l", "p">>,
    <<"c", "o", "m", "p", "l", "e", "t", "i", "o", "n", " ", "p", "o", "w", "e", "r", "s", "h", "e", "l", "l">>,
    <<"c", "o", "m", "p", "l", "e", "t", "i", "o", "n", " ", "p", "o", "w", "e", "r", "s", "h", "e", "l", "l", " ", "-", "-", "h", "e", "l", "p">>,
    <<"c", "o", "m", "p", "l", "e", "t", "i", "o", "n", " ", "z", "s", "h">>,
    <<"c", "o", "m", "p", "l", "e", "t", "i", "o", "n", " ", "z", "s", "h", " ", "-", "-", "h", "e", "l", "p">>,
    <<"r", "u", "n">>,
    <<"r", "u", "n", " ", "-", "-", "h", "e", "l", "p">>,
    <<"u", "n", "k", "n", "o", "w", "n">>,
    <<"-", "-", "v", "e", "r", "s", "i", "o", "n">>,
    <<"r", "u", "n", " ", "-", "f", " ", "e", "x", "a", "m", "p", "l", "e", "-", "s", "c", "o", "r", "e", ".", "y", "a", "m", "l">>,
    <<"r", "u", "n", " ", "-", "f", " ", "e", "x", "a", "m", "p", "l", "e", "-", "s", "c", "o", "r", "e", ".", "y", "a", "m", "l", " ", "-", "-", "b", "u", "i", "l", "d", " ", "t", "e", "s", "t">>,
    <<"r", "u", "n", " ", "-", "f", " ", "e", "x", "a", "m", "p", "l", "e", "-", "s", "c", "o", "r", "e", ".", "y", "a", "m", "l", " ", "-", "-", "o", "v", "e", "r", "r", "i", "d", "e", "s", " ", "o", "v", "e", "r", "r", "i", "d", "e", "s", ".", "y", "a", "m", "l">>,
    <<"r", "u", "n", " ", "-", "-", "v", "e", "r", "b", "o", "s", "e">>
>>

dir == <<"t", "e", "m", "p">>

\* The entries the loop of lines 75-77 visits in the model.
Args == 1..NumArgs

\* --------------------------------------------------------- pure parts
None == <<>>
Some(v) == <<v>>

\* The byte values the tool may emit: "a", line feed, and a byte that is not
\* valid UTF-8.
Alphabet == {97, 10, 255}

\* Every output the tool may produce for one invocation.
Outputs == UNION {[1..n -> Alphabet] : n \in 0..MaxOut}

\* Outputs of an invocation the tool handles in the ordinary way: text
\* terminated by a line feed.
Usual == {<<10>>, <<97, 10>>}

\* bytes.decode() succeeds only on valid UTF-8.
Decodable(bs) == \A i \in 1..Len(bs) : bs[i] < 128

DecodeByte(b) == CASE b = 10 -> "\n" [] b = 97 -> "a"

\* bytes.decode(): the text of a decodable byte string.
Decode(bs) == [i \in 1..Len(bs) |-> DecodeByte(bs[i])]

\* The bytes a text stands for (the inverse of Decode).
EncodeChar(c) == CASE c = "\n" -> 10 [] c = "a" -> 97
Encode(s) == [i \in 1..Len(s) |-> EncodeChar(s[i])]

\* file.readline() on the pipe: the bytes up to and including the first line
\* feed, or everything left when there is none (end of stream).
HasLine(bs) == \E i \in 1..Len(bs) : bs[i] = 10
FirstLF(bs) == CHOOSE i \in 1..Len(bs) : bs[i] = 10 /\ \A j \in 1..(i - 1) : bs[j] # 10
LineLen(bs) == IF HasLine(bs) THEN FirstLF(bs) ELSE Len(bs)
ReadLine(bs) == SubSeq(bs, 1, LineLen(bs))
AfterLine(bs) == SubSeq(bs, LineLen(bs) + 1, Len(bs))

\* Variant: poll() is called on every pass and ends the loop once the
\* subprocess has terminated, whatever was just read.
AlwaysPolls(out) == TRUE

\* Line 54: `output == "" and process.poll() is not None`; poll() is called
\* only when the left operand is true.
CallsPoll(out) == out = <<>>

\* Lines 56-60: a non-empty line is appended to the accumulator.
Accumulate(acc, out) ==
    IF out = <<>> THEN acc
    ELSE IF acc # None THEN Some(acc[1] \o out)
    ELSE Some(out)

\* Line 65: output_cmd[:-1] drops the last character, whatever it is.
DropLast(s) == SubSeq(s, 1, Len(s) - 1)

\* Variant: spaces of the name become hyphens.
HyphenatedPath(name) ==
    dir \o <<"/">> \o [i \in 1..Len(name) |-> IF name[i] = " " THEN "-" ELSE name[i]]
        \o <<"-", "o", "u", "t", "p", "u", "t", ".", "t", "x", "t">>

\* Line 70: f"{dir}/{name}-output.txt".
FilePath(name) == dir \o <<"/">> \o name \o <<"-", "o", "u", "t", "p", "u", "t", ".", "t", "x", "t">>

\* Variant: the file is opened in mode "w".
Truncate(old, text) == text

\* Lines 70-71: the file is opened in mode "a" and the content written.
AppendTo(old, text) == old \o text

\* What the external tool prints for each invocation: one invocation k
\* prints any output, every other one a usual output.
Tools ==
    {[i \in Args |-> IF i = k THEN s ELSE u] : k \in Args, s \in Outputs, u \in Usual}

\* A directory without entries.
NoFiles == [p \in {} |-> <<>>]

\* What may be at the path `temp` when the script starts: nothing, a regular
\* file, or a directory holding any of these files.
StaleFiles ==
    {NoFiles,
     (FilePath(arglist[1]) :> <<"a", "a">>) @@ ((dir \o <<"/", "x">>) :> <<"a">>)}

VARIABLES
    ws,          \* what is at path `temp`: "absent", "file" or "dir"
    files,       \* path -> text of every file under `temp`
    pc,          \* the statement the interpreter is at
    idx,         \* position of `arg` in arglist (line 75)
    tool,        \* the external tool: invocation -> bytes it prints
    child,       \* the subprocess of the current invocation
    status,      \* exit status of a terminated, unreaped subprocess
    sent,        \* bytes of its output the subprocess has written
    pipe,        \* bytes written to the pipe and not yet read
    orphans,     \* subprocesses still alive whose run_sc_cmd has returned
    process,     \* local `process`: "unbound" or "bound"
    returncode,  \* process.returncode: None or Some(status)
    output,      \* local `output` of run_sc_cmd (line 53)
    output_cmd,  \* local `output_cmd`: None or Some(text)
    rc,          \* local `rc` (line 64)
    content,     \* `output` of the loop at line 76
    printed,     \* invocations named in a "failed" diagnostic (line 62)
    err,         \* the exception that ended the script, or "none"
    runs,        \* executions of the loop over the list so far
    loops,       \* of these, executions since `temp` was last emptied
    hist,        \* invocation -> the texts passed to write_file, oldest first
    start        \* what was at `temp` when the script was started

vars == <<ws, files, pc, idx, tool, child, status, sent, pipe, orphans, process,
          returncode, output, output_cmd, rc, content, printed, err, runs, loops, hist,
          start>>

fsvars == <<ws, files>>
childvars == <<child, status, sent, pipe>>
locals == <<process, returncode, output, output_cmd, rc>>
ghost == <<runs, loops, hist, start>>

Alive(c) == c \in {"running", "closed"}

Init ==
    /\ ws \in {"absent", "file", "dir"}
    /\ files \in (IF ws = "dir" THEN StaleFiles ELSE {NoFiles})
    /\ pc = "rmtree"
    /\ idx = 1
    /\ tool \in Tools
    /\ child = "none"
    /\ status = 0
    /\ sent = 0
    /\ pipe = <<>>
    /\ orphans = 0
    /\ process = "unbound"
    /\ returncode = None
    /\ output = <<>>
    /\ output_cmd = None
    /\ rc = None
    /\ content = <<>>
    /\ printed = {}
    /\ err = "none"
    /\ runs = 1
    /\ loops = 1
    /\ hist = [i \in Args |-> <<>>]
    /\ start = [ws |-> ws, files |-> files]

\* An uncaught exception ends the script.
Raise(e) == pc' = "aborted" /\ err' = e

\* ------------------------------------------------------- the workspace
\* Variant: rmtree guarded by an inverted existence test.
RmtreeWhenMissing ==
    /\ pc = "rmtree"
    /\ IF ws = "dir"
       THEN pc' = "makedirs" /\ err' = err
       ELSE Raise(IF ws = "absent" THEN "FileNotFoundError" ELSE "NotADirectoryError")
    /\ UNCHANGED <<fsvars, idx, tool, childvars, orphans, locals, content, printed, ghost>>

\* Variant: rmtree(dir, ignore_errors=True).
RmtreeIgnoreErrors ==
    /\ pc = "rmtree"
    /\ ws' = (IF ws = "dir" THEN "absent" ELSE ws)
    /\ files' = NoFiles
    /\ loops' = 1
    /\ pc' = "makedirs"
    /\ UNCHANGED <<idx, tool, childvars, orphans, locals, content, printed, err, runs, hist,
                   start>>

\* Line 37: shutil.rmtree(dir).
Rmtree ==
    /\ pc = "rmtree"
    /\ IF ws = "dir"
       THEN /\ ws' = "absent"
            /\ files' = NoFiles
            /\ loops' = 1
            /\ pc' = "makedirs"
            /\ err' = err
       ELSE /\ Raise(IF ws = "absent" THEN "FileNotFoundError" ELSE "NotADirectoryError")
            /\ UNCHANGED <<fsvars, loops>>
    /\ UNCHANGED <<idx, tool, childvars, orphans, locals, content, printed, runs, hist,
                   start>>

\* Lines 39-41: create the directory unless the path exists; then the loop
\* of line 75 takes the first entry and calls run_sc_cmd.
Makedirs ==
    /\ pc = "makedirs"
    /\ ws' = (IF ws = "absent" THEN "dir" ELSE ws)
    /\ pc' = "popen"
    /\ UNCHANGED <<files, idx, tool, childvars, orphans, locals, content, printed, err, ghost>>

\* ------------------------------------------------------- the subprocess
\* The subprocess writes the next byte of its output to the pipe.
ChildWrite ==
    /\ child = "running"
    /\ sent < Len(tool[idx])
    /\ sent' = sent + 1
    /\ pipe' = Append(pipe, tool[idx][sent + 1])
    /\ UNCHANGED <<fsvars, pc, idx, tool, child, status, orphans, locals, content,
                   printed, err, ghost>>

\* The subprocess has written everything and its end of the pipe is closed
\* (by itself, or by the kernel as the first part of its exit).
ChildClose ==
    /\ child = "running"
    /\ sent = Len(tool[idx])
    /\ child' = "closed"
    /\ UNCHANGED <<fsvars, pc, idx, tool, status, sent, pipe, orphans, locals, content,
                   printed, err, ghost>>

\* The subprocess terminates with a zero or non-zero status and waits to be
\* reaped.
ChildExit ==
    /\ child = "closed"
    /\ child' = "zombie"
    /\ status' \in {0, 1}
    /\ UNCHANGED <<fsvars, pc, idx, tool, sent, pipe, orphans, locals, content,
                   printed, err, ghost>>

\* A subprocess left behind by run_sc_cmd terminates.
OrphanExit ==
    /\ orphans > 0
    /\ orphans' = orphans - 1
    /\ UNCHANGED <<fsvars, pc, idx, tool, childvars, locals, content, printed, err, ghost>>

\* ---------------------------------------------------------- run_sc_cmd
\* Popen.poll(): the cached return code, else a non-blocking wait that reaps
\* a terminated subprocess.
Polled == IF returncode # None THEN returncode
          ELSE IF child = "zombie" THEN Some(status)
          ELSE None
ChildAfterPoll == IF returncode = None /\ child = "zombie" THEN "reaped" ELSE child

\* Variant: the accumulator starts as the empty string.
PopenStartsEmpty ==
    /\ pc = "popen"
    /\ child' = "running"
    /\ status' = 0
    /\ sent' = 0
    /\ pipe' = <<>>
    /\ process' = "bound"
    /\ returncode' = None
    /\ output_cmd' = Some(<<>>)
    /\ pc' = "readline"
    /\ UNCHANGED <<fsvars, idx, tool, orphans, output, rc, content, printed, err, ghost>>

\* Lines 46-51: the subprocess starts, its output piped; output_cmd = None.
PopenStarts ==
    /\ pc = "popen"
    /\ child' = "running"
    /\ status' = 0
    /\ sent' = 0
    /\ pipe' = <<>>
    /\ process' = "bound"
    /\ returncode' = None
    /\ output_cmd' = None
    /\ pc' = "readline"
    /\ UNCHANGED <<fsvars, idx, tool, orphans, output, rc, content, printed, err, ghost>>

\* Lines 46-50: Popen raises (the executable is missing or cannot be
\* launched); the bare except of line 61 catches it.
PopenFails ==
    /\ pc = "popen"
    /\ pc' = "except"
    /\ UNCHANGED <<fsvars, idx, tool, childvars, orphans, locals, content, printed, err,
                   ghost>>

\* Line 53: readline() blocks until the pipe holds a whole line or the
\* stream has ended; decode() of the line raises on invalid UTF-8.
Readline ==
    /\ pc = "readline"
    /\ HasLine(pipe) \/ child # "running"
    /\ pipe' = AfterLine(pipe)
    /\ IF Decodable(ReadLine(pipe))
       THEN /\ output' = Decode(ReadLine(pipe))
            /\ pc' = "test"
       ELSE /\ output' = output
            /\ pc' = "except"
    /\ UNCHANGED <<fsvars, idx, tool, child, status, sent, orphans, process, returncode,
                   output_cmd, rc, content, printed, err, ghost>>

\* Lines 54-60: leave the loop on an empty read from a terminated
\* subprocess; otherwise accumulate the line and read again.
Test ==
    /\ pc = "test"
    /\ IF CallsPoll(output)
       THEN /\ returncode' = Polled
            /\ child' = ChildAfterPoll
            /\ IF Polled # None
               THEN /\ pc' = "line64"
                    /\ output_cmd' = output_cmd
               ELSE /\ pc' = "readline"
                    /\ output_cmd' = Accumulate(output_cmd, output)
       ELSE /\ pc' = "readline"
            /\ output_cmd' = Accumulate(output_cmd, output)
            /\ UNCHANGED <<returncode, child>>
    /\ UNCHANGED <<fsvars, idx, tool, status, sent, pipe, orphans, process, output, rc,
                   content, printed, err, ghost>>

\* Lines 61-62: the handler prints the diagnostic naming the invocation.
ExceptPrint ==
    /\ pc = "except"
    /\ printed' = printed \cup {idx}
    /\ pc' = "line63"
    /\ UNCHANGED <<fsvars, idx, tool, childvars, orphans, locals, content, err, ghost>>

\* Line 63 after a failed Popen: `process` is read unbound and
\* UnboundLocalError leaves run_sc_cmd.
ExceptUnbound ==
    /\ pc = "line63"
    /\ process = "unbound"
    /\ Raise("UnboundLocalError")
    /\ UNCHANGED <<fsvars, idx, tool, childvars, orphans, locals, content, printed, ghost>>

\* Line 63 after an exception in the loop: readline() blocks until the pipe
\* holds a whole line or the stream has ended; the line is printed.
ExceptReadline ==
    /\ pc = "line63"
    /\ process = "bound"
    /\ HasLine(pipe) \/ child # "running"
    /\ pipe' = AfterLine(pipe)
    /\ pc' = "line64"
    /\ UNCHANGED <<fsvars, idx, tool, child, status, sent, orphans, locals, content,
                   printed, err, ghost>>

\* Lines 64-66 with output_cmd = None: None[:-1] raises TypeError, which
\* nothing catches.
ReturnNone ==
    /\ pc = "line64"
    /\ output_cmd = None
    /\ rc' = Polled
    /\ returncode' = Polled
    /\ child' = ChildAfterPoll
    /\ Raise("TypeError")
    /\ UNCHANGED <<fsvars, idx, tool, status, sent, pipe, orphans, process, output,
                   output_cmd, content, printed, ghost>>

\* Lines 64-66: poll once more, drop the last character and return.  The
\* locals go out of scope; the Popen object is released without waiting, so
\* a subprocess that is still alive is left running.
Return ==
    /\ pc = "line64"
    /\ output_cmd # None
    /\ content' = DropLast(output_cmd[1])
    /\ orphans' = orphans + (IF Alive(ChildAfterPoll) THEN 1 ELSE 0)
    /\ child' = "none"
    /\ status' = 0
    /\ sent' = 0
    /\ pipe' = <<>>
    /\ process' = "unbound"
    /\ returncode' = None
    /\ output' = <<>>
    /\ output_cmd' = None
    /\ rc' = None
    /\ pc' = "write"
    /\ UNCHANGED <<fsvars, idx, tool, printed, err, ghost>>

\* ---------------------------------------------------------- write_file
\* Line 77 and lines 69-72: append the text to the invocation's file (open
\* raises when `temp` is not a directory); then the loop of line 75 takes the
\* next entry, or the script ends.  `output` of line 76 keeps its value.
WriteFile ==
    /\ pc = "write"
    /\ IF ws = "dir"
       THEN LET path == FilePath(arglist[idx])
                old == IF path \in DOMAIN files THEN files[path] ELSE <<>>
            IN /\ files' = [p \in DOMAIN files \cup {path} |->
                              IF p = path THEN AppendTo(old, content) ELSE files[p]]
               /\ hist' = [hist EXCEPT ![idx] = Append(@, content)]
               /\ IF idx < NumArgs
                  THEN idx' = idx + 1 /\ pc' = "popen"
                  ELSE idx' = idx /\ pc' = "done"
               /\ err' = err
       ELSE /\ Raise(IF ws = "absent" THEN "FileNotFoundError" ELSE "NotADirectoryError")
            /\ UNCHANGED <<files, idx, hist>>
    /\ UNCHANGED <<ws, tool, childvars, orphans, locals, content, printed, runs, loops,
                   start>>

\* ------------------------------------------------------- repeated runs
\* The script is executed again by a new interpreter: whatever the previous
\* one left in `temp` is there, a subprocess it left alive runs on.
RunAgain ==
    /\ pc \in {"done", "aborted"}
    /\ runs < MaxRuns
    /\ runs' = runs + 1
    /\ start' = [ws |-> ws, files |-> files]
    /\ pc' = "rmtree"
    /\ idx' = 1
    /\ orphans' = orphans + (IF Alive(child) THEN 1 ELSE 0)
    /\ child' = "none"
    /\ status' = 0
    /\ sent' = 0
    /\ pipe' = <<>>
    /\ process' = "unbound"
    /\ returncode' = None
    /\ output' = <<>>
    /\ output_cmd' = None
    /\ rc' = None
    /\ content' = <<>>
    /\ printed' = {}
    /\ err' = "none"
    /\ UNCHANGED <<fsvars, tool, loops, hist>>

\* The loop of lines 75-77 is executed once more over the list without the
\* reset of lines 37-41 before it.
LoopAgain ==
    /\ pc = "done"
    /\ runs < MaxRuns
    /\ runs' = runs + 1
    /\ loops' = loops + 1
    /\ pc' = "popen"
    /\ idx' = 1
    /\ printed' = {}
    /\ UNCHANGED <<fsvars, tool, childvars, orphans, locals, content, err, hist, start>>

\* ------------------------------------------------------ specifications
Next ==
    \/ Rmtree
    \/ Makedirs
    \/ PopenStarts
    \/ PopenFails
    \/ ChildWrite
    \/ ChildClose
    \/ ChildExit
    \/ OrphanExit
    \/ Readline
    \/ Test
    \/ ExceptPrint
    \/ ExceptUnbound
    \/ ExceptReadline
    \/ ReturnNone
    \/ Return
    \/ WriteFile

\* One execution of the script.
Spec == Init /\ [][Next]_vars

NextTwice ==
    \/ Next
    \/ RunAgain
    \/ LoopAgain

\* Executions of the script and of its loop, one after the other.
SpecTwice == Init /\ [][NextTwice]_vars

\* ------------------------------------------------------------- claims
\* The bytes of an output with one trailing line feed, if there is one,
\* removed and nothing else.
LessOneNewline(bs) ==
    IF Len(bs) > 0 /\ bs[Len(bs)] = 10 THEN SubSeq(bs, 1, Len(bs) - 1) ELSE bs

\* temp/<invocation>-output.txt, the invocation taken as it is.
RawPath(i) ==
    <<"t", "e", "m", "p", "/">> \o arglist[i]
        \o <<"-", "o", "u", "t", "p", "u", "t", ".", "t", "x", "t">>

\* temp/<invocation>-output.txt, every space of the invocation a hyphen.
Hyphenated(name) == [i \in 1..Len(name) |-> IF name[i] = " " THEN "-" ELSE name[i]]
SafePath(i) ==
    <<"t", "e", "m", "p", "/">> \o Hyphenated(arglist[i])
        \o <<"-", "o", "u", "t", "p", "u", "t", ".", "t", "x", "t">>

ResetErrors == {"FileNotFoundError", "NotADirectoryError"}

\* C1: after a full run (reset, then the loop over the whole list) every
\* invocation has its fixture file, and the file holds the tool's output for
\* that invocation less exactly one trailing newline.  Stated for a tool
\* whose output is valid UTF-8.
FullRunFixtures ==
    (pc = "done" /\ loops = 1 /\ \A i \in Args : Decodable(tool[i])) =>
        \A i \in Args :
            /\ FilePath(arglist[i]) \in DOMAIN files
            /\ Encode(files[FilePath(arglist[i])]) = LessOneNewline(tool[i])

\* C2: what run_sc_cmd returns for a subprocess that printed something is
\* the whole output less exactly one trailing newline and nothing else,
\* whether or not the output ends with a newline and whatever the exit
\* status.  Stated for output that is valid UTF-8.
ReturnsOutputLessNewline ==
    (pc = "write" /\ Decodable(tool[idx])) =>
        Encode(content) = LessOneNewline(tool[idx])

\* C3: when `temp` is a directory as the script starts, the reset raises
\* nothing, and as the first capture begins `temp` is a directory with no
\* entry: nothing from before the reset is left.
ResetLeavesEmptyDir ==
    start.ws = "dir" =>
        /\ ~(pc = "aborted" /\ err \in ResetErrors)
        /\ (pc = "popen" /\ idx = 1 /\ loops = 1) =>
               /\ ws = "dir"
               /\ DOMAIN files = {}
               /\ \A p \in DOMAIN start.files : p \notin DOMAIN files

ResetLeavesEmptyDirWitness ==
    /\ start.ws = "dir"
    /\ start.files # NoFiles
    /\ pc = "popen"
    /\ idx = 1
    /\ ws = "dir"
    /\ files = NoFiles

\* C4: when `temp` does not exist as the script starts, the script stops at
\* the removal with FileNotFoundError: the directory is not created, no
\* subprocess is started, no fixture is written.
MissingDirAborts ==
    start.ws = "absent" =>
        /\ pc \in {"rmtree", "aborted"}
        /\ pc = "aborted" => err = "FileNotFoundError"
        /\ ws = "absent"
        /\ files = NoFiles
        /\ child = "none" /\ process = "unbound" /\ orphans = 0
        /\ \A i \in Args : hist[i] = <<>>

MissingDirAbortsWitness ==
    /\ start.ws = "absent"
    /\ pc = "aborted"
    /\ err = "FileNotFoundError"

\* C5: a subprocess that prints nothing never makes run_sc_cmd return a
\* string: the accumulator is still None at line 64 and nothing is written
\* for it; a subprocess that prints a single newline makes it return the
\* empty string, with no exception and no diagnostic.
EmptyOutputFails ==
    /\ tool[idx] = <<>> =>
           /\ pc # "write"
           /\ pc = "line64" => output_cmd = None
    /\ \A i \in Args : tool[i] = <<>> => (hist[i] = <<>> /\ RawPath(i) \notin DOMAIN files)
           \/ pc \in {"rmtree", "makedirs"} \/ (pc = "aborted" /\ err \in ResetErrors)
    /\ tool[idx] = <<10>> =>
           /\ ~(pc = "aborted" /\ err = "TypeError")
           /\ pc = "write" => content = <<>>
           /\ process = "bound" => idx \notin printed

EmptyOutputFailsWitness ==
    /\ idx = 2
    /\ tool[1] = <<10>>
    /\ hist[1] = << <<>> >>
    /\ files[RawPath(1)] = <<>>
    /\ tool[2] = <<>>
    /\ printed = {}
    /\ pc = "aborted"
    /\ err = "TypeError"

\* C6: once the reset has succeeded, no failure of a single capture (the
\* subprocess cannot be started, or it prints nothing) ends the script.
CaptureFailureContinues ==
    pc = "aborted" => err \in ResetErrors

\* C7: the loop executed twice with no reset in between leaves in each file
\* the first execution's text followed directly by the second's; the script
\* executed twice (a reset before each loop) leaves in each file the text of
\* one capture, the same text both times.
AppendOnly ==
    pc = "done" =>
        \A i \in Args :
            LET h == hist[i]
                n == Len(h)
            IN /\ loops = 2 => files[RawPath(i)] = h[n - 1] \o h[n]
               /\ (loops = 1 /\ n >= 2) => (files[RawPath(i)] = h[n] /\ h[n] = h[n - 1])

AppendOnlyWitness ==
    /\ pc = "done"
    /\ loops = 2
    /\ hist[1] = << <<"a">>, <<"a">> >>
    /\ files[RawPath(1)] = <<"a", "a">>

\* C8 as stated: the file of an invocation that has been captured is
\* temp/<name>-output.txt with every space of the invocation replaced by a
\* hyphen.
FixtureNameIsSafe ==
    \A i \in Args : hist[i] # <<>> => SafePath(i) \in DOMAIN files

\* C8 amended: the file of an invocation is temp/<invocation>-output.txt,
\* the invocation string used as it is, spaces included; after the reset the
\* directory holds exactly the files of the invocations captured so far.
FixtureNameIsRaw ==
    (ws = "dir" /\ pc \notin {"rmtree", "makedirs"}) =>
        DOMAIN files = {RawPath(i) : i \in {j \in Args : hist[j] # <<>>}}

FixtureNameIsRawWitness ==
    /\ pc = "done"
    /\ RawPath(3) \in DOMAIN files
    /\ SafePath(3) \notin DOMAIN files

\* C9: when the drain loop is left through its break, the stream is at its
\* end, the subprocess has terminated and been reaped, and the accumulator
\* holds every byte the subprocess wrote, once and in the order written
\* (None when it wrote nothing).
DrainReadsEverything ==
    (pc = "line64" /\ idx \notin printed) =>
        /\ child = "reaped"
        /\ returncode # None
        /\ pipe = <<>>
        /\ sent = Len(tool[idx])
        /\ IF tool[idx] = <<>>
           THEN output_cmd = None
           ELSE output_cmd # None /\ Encode(output_cmd[1]) = tool[idx]

DrainReadsEverythingWitness ==
    /\ pc = "line64"
    /\ idx \notin printed
    /\ tool[idx] = <<97, 10, 10>>
    /\ output_cmd = Some(<<"a", "\n", "\n">>)

\* C10: a subprocess is started only when the subprocess of every earlier
\* invocation has terminated: at most one subprocess is alive at any time.
OneSubprocessAtATime ==
    child # "none" => orphans = 0

====
